---- MODULE Spec2Model ----
(***************************************************************************)
(* The asynchronous detection pipeline of client_object_detection.py and   *)
(* object_detection_mod.py (preprocess thread -> input queue -> inference  *)
(* engine driven by the main thread -> output queue -> postprocess thread) *)
(* and the UDP frame relay receiver / render loop of server.py.            *)
(***************************************************************************)
EXTENDS Integers, Sequences, FiniteSets, TLC

\* ------------------------------------------------------------------ bounds
MaxFrames == 10
MaxLiveFrames == 3
MaxBatch == 4
MaxSinkFails == 1
MaxDatagrams == 3
MaxImg == 2
MaxYields == 2
MaxRequests == 3

\* ------------------------------------------------- program constants
\* object_detection_mod.py: output_queue = queue.Queue(maxsize=10)
output_queue_maxsize == 10

Variants == {"client", "mod"}
InputKinds == {"images", "video"}

VARIABLES
  variant,           \* which entry point runs: client_object_detection / object_detection_mod
  input_kind,        \* infer(): images (cap is None) or a capture source (cap is not None)
  nFrames,           \* number of frames the source yields
  batch_size,        \* args.batch_size
  net_exists,        \* os.path.exists(args.net)
  labels_exists,     \* os.path.exists(args.labels)
  mainPc,            \* position of the main thread (main -> infer -> engine run -> joins)
  prePc,             \* position of preprocess_thread
  postPc,            \* position of postprocess_thread
  capPos,            \* frames read from cap so far
  capReleased,       \* cap.release() has been called
  frames,            \* preprocess_from_cap: frames accumulator
  processed_frames,  \* preprocess_from_cap: processed_frames accumulator
  imgIdx,            \* preprocess_images: batches of divide_list_to_batches consumed
  input_queue,       \* queue.Queue() of infer()
  inflight,          \* batches submitted to the engine whose completion is pending
  output_queue,      \* queue.Queue() of infer()
  image_id,          \* postprocess: per-run counter (object_detection_mod)
  pushed,            \* history: every non-Sentinel item put on input_queue, in order
  popped,            \* history: every non-Sentinel item postprocess got from output_queue
  sunk,              \* history: sink actions of postprocess, in order
  inSentinels,       \* history: Sentinels put on input_queue
  outSentinels,      \* history: Sentinels put on output_queue
  postSentinels,     \* history: Sentinels postprocess got
  polls,             \* history: cv2.waitKey polls
  quitSeen,          \* postprocess saw key == ord('q')
  interrupted,       \* KeyboardInterrupt was raised in the main thread
  sinkFails,         \* per-item sink failures so far
  threadsStarted,    \* history: Thread.start() calls
  logged,            \* history: log records of infer()/main()
  exitStatus,        \* process exit status, -1 while running
  \* ------------------------------------------------------------ server.py
  latest_frame,      \* global latest_frame (None until a frame is stored)
  detection_process, \* global detection_process (None or the Popen handle)
  stream_active,     \* global stream_active
  recvPc,            \* position of receive_thread
  udp_buffer,        \* datagrams waiting in server_socket
  received,          \* history: datagrams recvfrom returned, in order
  renderPc,          \* position of a generate_frames() generator
  yielded,           \* history: frames the generator yielded
  procAlive,         \* detection subprocesses started and still running
  popens,            \* history: number of subprocess.Popen calls
  popenAt,           \* history: datagrams received before each subprocess.Popen call
  reqPc              \* position of each request handler thread

pipeVars == <<variant, input_kind, nFrames, batch_size, net_exists, labels_exists, mainPc, prePc, postPc,
              capPos, capReleased, frames, processed_frames, imgIdx, input_queue,
              inflight, output_queue, image_id, pushed, popped, sunk, inSentinels,
              outSentinels, postSentinels, polls, quitSeen, interrupted, sinkFails,
              threadsStarted, logged, exitStatus>>

serverVars == <<latest_frame, detection_process, stream_active, recvPc, udp_buffer,
                received, renderPc, yielded, procAlive, popens, popenAt, reqPc>>

vars == <<pipeVars, serverVars>>

\* ------------------------------------------------------------ values
\* The Sentinel: None put on a queue.
Sentinel == [tag |-> "None"]

\* cv2.cvtColor(frame, cv2.COLOR_BGR2RGB): a new array derived from the frame.
cvtColor(frame) == frame + 100

\* utils.preprocess(image, width, height): the resized/padded model input.
utils_preprocess(image) == image + 200

\* The inference engine's raw output tensor for one preprocessed frame.
RawOutput(preprocessed) == preprocessed + 1000

\* utils.extract_detections(infer_results): detections decoded from the raw outputs.
extract_detections(infer_results) == <<"detections", infer_results>>

\* postprocess: "if len(infer_results) == 1: infer_results = infer_results[0]".
Unwrap(infer_results) ==
  IF Len(infer_results) = 1 THEN infer_results[1] ELSE infer_results

\* load_images_opencv(input): the image set, in order.
Images == [i \in 1..nFrames |-> i]

\* validate_images(images, batch_size) raises ValueError: the set is empty or its
\* count is not compatible with the batch size.
validate_images_raises(images, b) == Len(images) = 0 \/ Len(images) % b # 0

\* divide_list_to_batches(images, batch_size): the full batches, in order.
divide_list_to_batches(images, b) ==
  [k \in 1..(Len(images) \div b) |-> [j \in 1..b |-> images[(k - 1) * b + j]]]

\* The tuple put on input_queue.
InputTuple(fs, ps) == [tag |-> "batch", frames |-> fs, processed |-> ps]

\* The engine's completion for one batch: (original_batch, raw_outputs).
EngineResult(batch) ==
  [tag |-> "result", original |-> batch.frames,
   infer_results |-> [j \in 1..Len(batch.processed) |-> RawOutput(batch.processed[j])]]

HasCap == input_kind = "video"

PreAlive == prePc \in {"run", "sentinel"}
PostAlive == postPc \in {"get", "cleanup"}

InferPcs == {"infer", "start_pre", "start_post", "run", "drain", "join_pre",
             "put_none", "join_post", "release", "log"}

cfgVars == <<variant, input_kind, nFrames, batch_size, net_exists, labels_exists>>
mainVars == <<mainPc, interrupted, threadsStarted, logged, exitStatus>>
preVars == <<prePc, capPos, frames, processed_frames, imgIdx, pushed, inSentinels>>
postVars == <<postPc, image_id, popped, sunk, postSentinels, polls, quitSeen, sinkFails>>

PipeInit ==
  /\ variant \in Variants
  /\ input_kind \in InputKinds
  /\ nFrames \in 0..MaxFrames
  /\ batch_size \in 1..MaxBatch
  /\ net_exists \in BOOLEAN
  /\ labels_exists \in BOOLEAN
  /\ mainPc = "parse_args"
  /\ prePc = "idle"
  /\ postPc = "idle"
  /\ capPos = 0
  /\ capReleased = FALSE
  /\ frames = <<>>
  /\ processed_frames = <<>>
  /\ imgIdx = 0
  /\ input_queue = <<>>
  /\ inflight = <<>>
  /\ output_queue = <<>>
  /\ image_id = 0
  /\ pushed = <<>>
  /\ popped = <<>>
  /\ sunk = <<>>
  /\ inSentinels = 0
  /\ outSentinels = 0
  /\ postSentinels = 0
  /\ polls = 0
  /\ quitSeen = FALSE
  /\ interrupted = FALSE
  /\ sinkFails = 0
  /\ threadsStarted = {}
  /\ logged = <<>>
  /\ exitStatus = -1

\* Python's None as the value of latest_frame and detection_process.
None == 0

Requests == 1..MaxRequests

\* A datagram: the pickle of a JPEG buffer the client sent (image k), the pickle
\* of bytes that are no image, or a payload that is no pickle at all.
ValidDatagrams == {<<"pickle", "jpg", k>> : k \in 1..MaxImg}
Datagrams == ValidDatagrams \cup {<<"pickle", "bytes", 0>>, <<"junk", "", 0>>}

\* pickle.loads(packet): raises on a payload that is no pickle.
pickle_loads_raises(packet) == packet[1] # "pickle"
pickle_loads(packet) == <<packet[2], packet[3]>>

\* cv2.imdecode(buffer, cv2.IMREAD_COLOR): the image, or None when the buffer
\* holds no decodable image.
imdecode(buffer) == IF buffer[1] = "jpg" THEN buffer[2] ELSE None

\* cv2.imencode('.jpg', frame) ... buffer.tobytes(): the part the generator yields.
imencode(frame) == <<"jpg", frame>>

ServerInit ==
  /\ latest_frame = None
  /\ detection_process = None
  /\ stream_active = FALSE
  /\ recvPc = "idle"
  /\ udp_buffer = <<>>
  /\ received = <<>>
  /\ renderPc = "idle"
  /\ yielded = <<>>
  /\ procAlive = {}
  /\ popens = 0
  /\ popenAt = <<>>
  /\ reqPc = [r \in Requests |-> "new"]

\* ------------------------------------------------------------ main thread

\* Mutant of PathsExist: the labels path is not tested.
PathsExist_NetOnly(net, labels) == net

\* parse_args(): "if not os.path.exists(args.net)", "if not os.path.exists(args.labels)"
PathsExist(net, labels) == net /\ labels

\* parse_args(): both paths must exist, else FileNotFoundError escapes main().
ParseArgs ==
  /\ mainPc = "parse_args"
  /\ IF PathsExist(net_exists, labels_exists)
         THEN /\ mainPc' = "infer"
              /\ UNCHANGED <<logged, exitStatus>>
         ELSE /\ mainPc' = "shutdown"
              /\ logged' = Append(logged, "FileNotFoundError")
              /\ exitStatus' = 1
  /\ UNCHANGED <<interrupted, threadsStarted>>
  /\ UNCHANGED <<cfgVars, preVars, postVars, capReleased, input_queue, inflight,
                 output_queue, outSentinels, serverVars>>

\* Mutant of AfterValueError: the except branch has no return.
AfterValueError_FallsThrough == "start_pre"

\* infer(): "except ValueError as e: logger.error(e); return" ends infer(), and
\* main() after it.
AfterValueError == "shutdown"

\* infer(): open the source; an image set is validated, a ValueError is logged and
\* infer() returns. Otherwise the queues and the engine are constructed.
InferOpen ==
  /\ mainPc = "infer"
  /\ IF ~HasCap /\ validate_images_raises(Images, batch_size)
       THEN /\ logged' = Append(logged, "error")
            /\ mainPc' = AfterValueError
            /\ exitStatus' = 0
       ELSE /\ mainPc' = "start_pre"
            /\ UNCHANGED <<logged, exitStatus>>
  /\ UNCHANGED <<interrupted, threadsStarted>>
  /\ UNCHANGED <<cfgVars, preVars, postVars, capReleased, input_queue, inflight,
                 output_queue, outSentinels, serverVars>>

\* preprocess_thread.start()
StartPre ==
  /\ mainPc = "start_pre"
  /\ mainPc' = "start_post"
  /\ prePc' = "run"
  /\ threadsStarted' = threadsStarted \cup {"preprocess"}
  /\ UNCHANGED <<interrupted, logged, exitStatus>>
  /\ UNCHANGED <<cfgVars, capPos, frames, processed_frames, imgIdx, pushed, inSentinels,
                 postVars, capReleased, input_queue, inflight, output_queue,
                 outSentinels, serverVars>>

\* postprocess_thread.start()
StartPost ==
  /\ mainPc = "start_post"
  /\ mainPc' = "run"
  /\ postPc' = "get"
  /\ threadsStarted' = threadsStarted \cup {"postprocess"}
  /\ UNCHANGED <<interrupted, logged, exitStatus>>
  /\ UNCHANGED <<cfgVars, preVars, image_id, popped, sunk, postSentinels, polls,
                 quitSeen, sinkFails, capReleased, input_queue, inflight, output_queue,
                 outSentinels, serverVars>>

\* ------------------------------------------- inference engine (run() in main)

\* run(): pop a batch from input_queue and submit it asynchronously.
EngineSubmit ==
  /\ mainPc = "run"
  /\ input_queue # <<>>
  /\ Head(input_queue) # Sentinel
  /\ input_queue' = Tail(input_queue)
  /\ inflight' = Append(inflight, Head(input_queue))
  /\ UNCHANGED <<mainVars, cfgVars, preVars, postVars, capReleased, output_queue,
                 outSentinels, serverVars>>

\* A completion is delivered, in submission order, onto output_queue.
EngineComplete ==
  /\ mainPc \in {"run", "drain"}
  /\ inflight # <<>>
  /\ inflight' = Tail(inflight)
  /\ output_queue' = Append(output_queue, EngineResult(Head(inflight)))
  /\ UNCHANGED <<mainVars, cfgVars, preVars, postVars, capReleased, input_queue,
                 outSentinels, serverVars>>

\* run(): input_queue yields the Sentinel; dispatch stops.
EngineSentinel ==
  /\ mainPc = "run"
  /\ input_queue # <<>>
  /\ Head(input_queue) = Sentinel
  /\ input_queue' = Tail(input_queue)
  /\ mainPc' = "drain"
  /\ UNCHANGED <<interrupted, threadsStarted, logged, exitStatus>>
  /\ UNCHANGED <<cfgVars, preVars, postVars, capReleased, inflight, output_queue,
                 outSentinels, serverVars>>

\* run(): every completion delivered; the engine pushes its Sentinel downstream
\* and run() returns.
EngineReturn ==
  /\ mainPc = "drain"
  /\ inflight = <<>>
  /\ output_queue' = Append(output_queue, Sentinel)
  /\ outSentinels' = outSentinels + 1
  /\ mainPc' = "join_pre"
  /\ UNCHANGED <<interrupted, threadsStarted, logged, exitStatus>>
  /\ UNCHANGED <<cfgVars, preVars, postVars, capReleased, input_queue, inflight,
                 serverVars>>

\* ------------------------------------------------ main thread, after run()

\* preprocess_thread.join()
JoinPre ==
  /\ mainPc = "join_pre"
  /\ ~PreAlive
  /\ mainPc' = "put_none"
  /\ UNCHANGED <<interrupted, threadsStarted, logged, exitStatus>>
  /\ UNCHANGED <<cfgVars, preVars, postVars, capReleased, input_queue, inflight,
                 output_queue, outSentinels, serverVars>>

\* output_queue.put(None)
PutNone ==
  /\ mainPc = "put_none"
  /\ output_queue' = Append(output_queue, Sentinel)
  /\ outSentinels' = outSentinels + 1
  /\ mainPc' = "join_post"
  /\ UNCHANGED <<interrupted, threadsStarted, logged, exitStatus>>
  /\ UNCHANGED <<cfgVars, preVars, postVars, capReleased, input_queue, inflight,
                 serverVars>>

\* Mutant of PostJoined: infer() does not wait for the postprocess thread.
PostJoined_NoWait == TRUE

\* postprocess_thread.join() returns once the thread has ended.
PostJoined == ~PostAlive

\* postprocess_thread.join()
JoinPost ==
  /\ mainPc = "join_post"
  /\ PostJoined
  /\ mainPc' = IF variant = "mod" THEN "release" ELSE "log"
  /\ UNCHANGED <<interrupted, threadsStarted, logged, exitStatus>>
  /\ UNCHANGED <<cfgVars, preVars, postVars, capReleased, input_queue, inflight,
                 output_queue, outSentinels, serverVars>>

\* object_detection_mod.infer(): "if cap is not None: cap.release()";
\* cv2.destroyAllWindows()
InferRelease ==
  /\ mainPc = "release"
  /\ capReleased' = (capReleased \/ HasCap)
  /\ mainPc' = "log"
  /\ UNCHANGED <<interrupted, threadsStarted, logged, exitStatus>>
  /\ UNCHANGED <<cfgVars, preVars, postVars, input_queue, inflight, output_queue,
                 outSentinels, serverVars>>

\* logger.info('Inference was successful!'); infer() and main() return.
LogSuccess ==
  /\ mainPc = "log"
  /\ logged' = Append(logged, "success")
  /\ mainPc' = "shutdown"
  /\ exitStatus' = 0
  /\ UNCHANGED <<interrupted, threadsStarted>>
  /\ UNCHANGED <<cfgVars, preVars, postVars, capReleased, input_queue, inflight,
                 output_queue, outSentinels, serverVars>>

\* KeyboardInterrupt raised in the main thread while infer() runs.
\* object_detection_mod.main() catches it (warning, destroyAllWindows, sys.exit(0));
\* client_object_detection.main() has no handler: the exception escapes.
Interrupt ==
  /\ mainPc \in InferPcs
  /\ interrupted' = TRUE
  /\ mainPc' = "shutdown"
  /\ IF variant = "mod"
       THEN /\ logged' = Append(logged, "warning")
            /\ exitStatus' = 0
       ELSE /\ logged' = Append(logged, "KeyboardInterrupt")
            /\ exitStatus' = 130
  /\ UNCHANGED threadsStarted
  /\ UNCHANGED <<cfgVars, preVars, postVars, capReleased, input_queue, inflight,
                 output_queue, outSentinels, serverVars>>

\* Interpreter shutdown: the process exits once no non-daemon thread is alive.
ProcessExit ==
  /\ mainPc = "shutdown"
  /\ ~PreAlive
  /\ ~PostAlive
  /\ mainPc' = "exited"
  /\ UNCHANGED <<interrupted, threadsStarted, logged, exitStatus>>
  /\ UNCHANGED <<cfgVars, preVars, postVars, capReleased, input_queue, inflight,
                 output_queue, outSentinels, serverVars>>

\* ------------------------------------------------------ preprocess thread

\* Mutant of AppendFrame: the frame is inserted at the front of the accumulator.
AppendFrame_AtFront(fs, frame) == <<frame>> \o fs

\* frames.append(frame)
AppendFrame(fs, frame) == Append(fs, frame)

\* Mutant of BatchFull: the batch is pushed one frame late.
BatchFull_OneLate(fs) == Len(fs) = batch_size + 1

\* "if len(frames) == batch_size"
BatchFull(fs) == Len(fs) = batch_size

\* Mutant of ResetAccumulators: the accumulators are emptied in place
\* (frames.clear()), which empties the lists the queued tuple refers to.
ResetAccumulators_ClearInPlace(q) == [q EXCEPT ![Len(q)] = InputTuple(<<>>, <<>>)]

\* "processed_frames, frames = [], []" after the put: the names are rebound to
\* new lists, the lists of the tuple just queued are left as they are. The
\* operator gives input_queue as it is after the statement.
ResetAccumulators(q) == q

\* preprocess_from_cap: one iteration of the while loop. cap.read() returns
\* ret False at the end of the source and once cap has been released.
PreRead ==
  /\ prePc = "run"
  /\ HasCap
  /\ IF capReleased \/ capPos = nFrames
       THEN \* ret is False: break
            /\ prePc' = "sentinel"
            /\ UNCHANGED <<capPos, frames, processed_frames, pushed, input_queue>>
       ELSE LET frame == capPos + 1
                fs == AppendFrame(frames, frame)
                ps == Append(processed_frames, utils_preprocess(cvtColor(frame)))
            IN /\ capPos' = capPos + 1
               /\ prePc' = prePc
               /\ IF BatchFull(fs)
                    THEN /\ input_queue' =
                              ResetAccumulators(Append(input_queue, InputTuple(fs, ps)))
                         /\ pushed' = Append(pushed, InputTuple(fs, ps))
                         /\ frames' = <<>>
                         /\ processed_frames' = <<>>
                    ELSE /\ frames' = fs
                         /\ processed_frames' = ps
                         /\ UNCHANGED <<input_queue, pushed>>
  /\ UNCHANGED <<imgIdx, inSentinels>>
  /\ UNCHANGED <<mainVars, cfgVars, postVars, capReleased, inflight, output_queue,
                 outSentinels, serverVars>>

\* preprocess_images: one iteration of the for loop, or its end.
PreImages ==
  /\ prePc = "run"
  /\ ~HasCap
  /\ LET batches == divide_list_to_batches(Images, batch_size)
     IN IF imgIdx = Len(batches)
          THEN /\ prePc' = "sentinel"
               /\ UNCHANGED <<imgIdx, input_queue, pushed>>
          ELSE LET batch == batches[imgIdx + 1]
                   input_tuple ==
                     InputTuple([j \in 1..Len(batch) |-> batch[j]],
                                [j \in 1..Len(batch) |-> utils_preprocess(batch[j])])
               IN /\ imgIdx' = imgIdx + 1
                  /\ input_queue' = Append(input_queue, input_tuple)
                  /\ pushed' = Append(pushed, input_tuple)
                  /\ prePc' = prePc
  /\ UNCHANGED <<capPos, frames, processed_frames, inSentinels>>
  /\ UNCHANGED <<mainVars, cfgVars, postVars, capReleased, inflight, output_queue,
                 outSentinels, serverVars>>

\* Mutant of PutInputSentinel: the Sentinel is not put.
PutInputSentinel_Missing(q) == q

\* Mutant of PutInputSentinel: preprocess_from_cap puts a Sentinel of its own
\* before preprocess puts the final one.
PutInputSentinel_Twice(q) == Append(Append(q, Sentinel), Sentinel)

\* preprocess: "input_queue.put(None)" once the source is exhausted.
PutInputSentinel(q) == Append(q, Sentinel)

PreSentinel ==
  /\ prePc = "sentinel"
  /\ input_queue' = PutInputSentinel(input_queue)
  /\ inSentinels' = inSentinels + (Len(input_queue') - Len(input_queue))
  /\ prePc' = "done"
  /\ UNCHANGED <<capPos, frames, processed_frames, imgIdx, pushed>>
  /\ UNCHANGED <<mainVars, cfgVars, postVars, capReleased, inflight, output_queue,
                 outSentinels, serverVars>>

\* ----------------------------------------------------- postprocess thread

\* The sink of the running entry point: the relay socket (client), the display
\* window (mod, cap is not None) or the output directory (mod, cap is None).
SinkOf == IF variant = "client" THEN "relay"
          ELSE IF HasCap THEN "display" ELSE "disk"

\* What the sink call of one iteration can do: succeed; return a failure flag
\* (cv2.imencode / cv2.imwrite return False), after which the loop goes on; or
\* raise (client_socket.sendto), which nothing in postprocess catches.
SinkOutcomes ==
  IF sinkFails >= MaxSinkFails THEN {"ok"}
  ELSE IF variant = "client" THEN {"ok", "encode_failed", "send_raised"}
  ELSE IF HasCap THEN {"ok"} ELSE {"ok", "write_failed"}

\* cv2.waitKey(1) & 0xFF in object_detection_mod: a key press needs the window.
Keys == IF variant = "mod" /\ HasCap THEN {"q", "none"} ELSE {"none"}

\* "if key == ord('q'): break"
QuitRequested(key) == key = "q"

\* os.path.join(output_path, f"output_{image_id}.png")
OutputPath(id) == <<"output_", id, ".png">>

\* The finished frame handed to the sink for one result; only the disk sink
\* names a file. ok is FALSE when the call returned a failure flag or raised.
SinkRecord(result, outcome) ==
  [sink |-> SinkOf,
   frame |-> result.original,
   detections |-> extract_detections(Unwrap(result.infer_results)),
   id |-> image_id,
   path |-> IF SinkOf = "disk" THEN OutputPath(image_id) ELSE <<>>,
   ok |-> (outcome = "ok")]

\* Mutant of RouteToSink: the disk branch is no "else" of the display branch,
\* so one result is handed to a sink twice.
RouteToSink_Twice(result, outcome) ==
  <<SinkRecord(result, outcome), SinkRecord(result, outcome)>>

\* The sink calls of one iteration: cv2.imshow, else cv2.imwrite
\* (object_detection_mod); client_socket.sendto (client_object_detection).
RouteToSink(result, outcome) == <<SinkRecord(result, outcome)>>

\* Mutant of NextImageId: the counter is not advanced.
NextImageId_Stuck(id) == id

\* "image_id += 1"
NextImageId(id) == id + 1

\* postprocess: one iteration of the while loop.
PostGet ==
  /\ postPc = "get"
  /\ output_queue # <<>>
  /\ output_queue' = Tail(output_queue)
  /\ LET result == Head(output_queue)
     IN IF result = Sentinel
          THEN /\ postPc' = "cleanup"
               /\ postSentinels' = postSentinels + 1
               /\ UNCHANGED <<image_id, popped, sunk, polls, quitSeen, sinkFails>>
          ELSE \E outcome \in SinkOutcomes, key \in Keys :
                 /\ popped' = Append(popped, result)
                 /\ sinkFails' = IF outcome = "ok" THEN sinkFails ELSE sinkFails + 1
                 /\ UNCHANGED postSentinels
                 /\ sunk' = sunk \o RouteToSink(result, outcome)
                 /\ IF outcome = "send_raised"
                      THEN \* the exception ends the thread
                           /\ postPc' = "dead"
                           /\ UNCHANGED <<image_id, polls, quitSeen>>
                      ELSE /\ IF variant = "mod"
                                THEN /\ image_id' = NextImageId(image_id)
                                     /\ polls' = polls + 1
                                     /\ quitSeen' = QuitRequested(key)
                                     /\ postPc' = IF QuitRequested(key)
                                                    THEN "cleanup" ELSE "get"
                                ELSE /\ postPc' = "get"
                                     /\ UNCHANGED <<image_id, polls, quitSeen>>
  /\ UNCHANGED <<mainVars, cfgVars, preVars, capReleased, input_queue, inflight,
                 outSentinels, serverVars>>

\* Mutant of PostReleaseCap: cap is not released after the loop.
PostReleaseCap_Skipped(released) == released

\* object_detection_mod.postprocess after the loop: "if cap is not None: cap.release()".
PostReleaseCap(released) == released \/ HasCap

\* After the loop: mod releases cap and destroys the windows; client calls
\* output_queue.task_done(). The thread then ends.
PostCleanup ==
  /\ postPc = "cleanup"
  /\ capReleased' = IF variant = "mod" THEN PostReleaseCap(capReleased) ELSE capReleased
  /\ postPc' = "done"
  /\ UNCHANGED <<image_id, popped, sunk, postSentinels, polls, quitSeen, sinkFails>>
  /\ UNCHANGED <<mainVars, cfgVars, preVars, input_queue, inflight, output_queue,
                 outSentinels, serverVars>>

\* ------------------------------------------------------------- server.py

\* __main__: receive_thread.start()
StartReceiver ==
  /\ recvPc = "idle"
  /\ recvPc' = "recv"
  /\ UNCHANGED <<latest_frame, detection_process, stream_active, udp_buffer, received,
                 renderPc, yielded, procAlive, popens, popenAt, reqPc, pipeVars>>

\* A datagram reaches the bound socket.
DatagramArrives ==
  /\ Len(received) + Len(udp_buffer) < MaxDatagrams
  /\ \E d \in Datagrams : udp_buffer' = Append(udp_buffer, d)
  /\ UNCHANGED <<latest_frame, detection_process, stream_active, recvPc, received,
                 renderPc, yielded, procAlive, popens, popenAt, reqPc, pipeVars>>

\* Mutant of StoreFrame: a frame already held is kept.
StoreFrame_KeepFirst(old, new) == IF old # None THEN old ELSE new

\* "latest_frame = cv2.imdecode(buffer, cv2.IMREAD_COLOR)"
StoreFrame(old, new) == new

\* "except Exception as e: print(...); break"
AfterException == "stopped"

\* receive_frames: one iteration of the while loop.
ReceiveFrame ==
  /\ recvPc = "recv"
  /\ udp_buffer # <<>>
  /\ LET packet == Head(udp_buffer)
     IN /\ udp_buffer' = Tail(udp_buffer)
        /\ received' = Append(received, packet)
        /\ IF pickle_loads_raises(packet)
             THEN /\ recvPc' = AfterException
                  /\ UNCHANGED latest_frame
             ELSE /\ latest_frame' = StoreFrame(latest_frame, imdecode(pickle_loads(packet)))
                  /\ UNCHANGED recvPc
  /\ UNCHANGED <<detection_process, stream_active, renderPc, yielded, procAlive,
                 popens, popenAt, reqPc, pipeVars>>

\* video_feed: a generator over generate_frames() is served while stream_active.
VideoFeed ==
  /\ renderPc = "idle"
  /\ stream_active
  /\ renderPc' = "check"
  /\ UNCHANGED <<latest_frame, detection_process, stream_active, recvPc, udp_buffer,
                 received, yielded, procAlive, popens, popenAt, reqPc, pipeVars>>

\* Mutant of FrameIsSet: the buffer is encoded without the None test.
FrameIsSet_Unchecked(frame) == TRUE

\* "latest_frame is not None"
FrameIsSet(frame) == frame # None

\* generate_frames: "if latest_frame is not None"
RenderCheck ==
  /\ renderPc = "check"
  /\ renderPc' = IF FrameIsSet(latest_frame) THEN "encode" ELSE "check"
  /\ UNCHANGED <<latest_frame, detection_process, stream_active, recvPc, udp_buffer,
                 received, yielded, procAlive, popens, popenAt, reqPc, pipeVars>>

\* generate_frames: encode latest_frame, read again, and yield it; cv2.imencode
\* raises on None and the generator ends.
RenderEncode ==
  /\ renderPc = "encode"
  /\ Len(yielded) < MaxYields
  /\ IF latest_frame = None
       THEN /\ renderPc' = "raised"
            /\ UNCHANGED yielded
       ELSE /\ renderPc' = "check"
            /\ yielded' = Append(yielded, [frame |-> imencode(latest_frame),
                                           after |-> Len(received),
                                           session |-> popens])
  /\ UNCHANGED <<latest_frame, detection_process, stream_active, recvPc, udp_buffer,
                 received, procAlive, popens, popenAt, reqPc, pipeVars>>

\* Requests are numbered in the order the server starts handling them.
Arrives(r) == reqPc[r] = "new" /\ \A q \in 1..(r - 1) : reqPc[q] # "new"

\* setup (POST): the uploaded files are saved; with a model and a label file
\* run_detection is called, else the form is rendered again.
SetupPost(r) ==
  /\ Arrives(r)
  /\ \E files_ok \in BOOLEAN :
       reqPc' = [reqPc EXCEPT ![r] = IF files_ok THEN "popen" ELSE "done"]
  /\ UNCHANGED <<latest_frame, detection_process, stream_active, recvPc, udp_buffer,
                 received, renderPc, yielded, procAlive, popens, popenAt, pipeVars>>

\* run_detection: "detection_process = subprocess.Popen(...)"
RunPopen(r) ==
  /\ reqPc[r] = "popen"
  /\ popens' = popens + 1
  /\ procAlive' = procAlive \cup {popens + 1}
  /\ detection_process' = popens + 1
  /\ popenAt' = Append(popenAt, Len(received))
  /\ reqPc' = [reqPc EXCEPT ![r] = "activate"]
  /\ UNCHANGED <<latest_frame, stream_active, recvPc, udp_buffer, received, renderPc,
                 yielded, pipeVars>>

\* run_detection: "stream_active = True"
RunActivate(r) ==
  /\ reqPc[r] = "activate"
  /\ stream_active' = TRUE
  /\ reqPc' = [reqPc EXCEPT ![r] = "done"]
  /\ UNCHANGED <<latest_frame, detection_process, recvPc, udp_buffer, received,
                 renderPc, yielded, procAlive, popens, popenAt, pipeVars>>

\* stop_detection: "if detection_process:"
StopCheck(r) ==
  /\ Arrives(r)
  /\ reqPc' = [reqPc EXCEPT ![r] = IF detection_process # None
                                     THEN "terminate" ELSE "deactivate"]
  /\ UNCHANGED <<latest_frame, detection_process, stream_active, recvPc, udp_buffer,
                 received, renderPc, yielded, procAlive, popens, popenAt, pipeVars>>

\* stop_detection: "detection_process.terminate()"; the global is read again, and
\* None has no terminate(): the handler ends with the AttributeError.
StopTerminate(r) ==
  /\ reqPc[r] = "terminate"
  /\ IF detection_process = None
       THEN /\ reqPc' = [reqPc EXCEPT ![r] = "raised"]
            /\ UNCHANGED procAlive
       ELSE /\ procAlive' = procAlive \ {detection_process}
            /\ reqPc' = [reqPc EXCEPT ![r] = "clear"]
  /\ UNCHANGED <<latest_frame, detection_process, stream_active, recvPc, udp_buffer,
                 received, renderPc, yielded, popens, popenAt, pipeVars>>

\* stop_detection: "detection_process = None"
StopClear(r) ==
  /\ reqPc[r] = "clear"
  /\ detection_process' = None
  /\ reqPc' = [reqPc EXCEPT ![r] = "deactivate"]
  /\ UNCHANGED <<latest_frame, stream_active, recvPc, udp_buffer, received, renderPc,
                 yielded, procAlive, popens, popenAt, pipeVars>>

\* Mutant of FrameAfterStop: stop_detection also resets the frame buffer.
FrameAfterStop_Cleared(frame) == None

\* stop_detection declares "global detection_process, stream_active" only and
\* assigns nothing else: latest_frame after the handler is what it was.
FrameAfterStop(frame) == frame

\* stop_detection: "stream_active = False"
StopDeactivate(r) ==
  /\ reqPc[r] = "deactivate"
  /\ stream_active' = FALSE
  /\ latest_frame' = FrameAfterStop(latest_frame)
  /\ reqPc' = [reqPc EXCEPT ![r] = "done"]
  /\ UNCHANGED <<detection_process, recvPc, udp_buffer, received,
                 renderPc, yielded, procAlive, popens, popenAt, pipeVars>>

\* The relay: the receiver thread, and a render loop served during the session
\* that the first setup request starts.
RelayNext ==
  \/ StartReceiver
  \/ DatagramArrives
  \/ ReceiveFrame
  \/ VideoFeed
  \/ RenderCheck
  \/ RenderEncode
  \/ SetupPost(1)
  \/ RunPopen(1)
  \/ RunActivate(1)

\* Two sessions: a setup, then a stop, then a second setup, each request sent
\* after the response to the one before; the receiver thread and a render loop
\* run throughout.
SessionNext ==
  \/ StartReceiver
  \/ DatagramArrives
  \/ ReceiveFrame
  \/ VideoFeed
  \/ RenderCheck
  \/ RenderEncode
  \/ SetupPost(1)
  \/ RunPopen(1)
  \/ RunActivate(1)
  \/ (reqPc[1] = "done" /\ StopCheck(2))
  \/ StopTerminate(2)
  \/ StopClear(2)
  \/ StopDeactivate(2)
  \/ (reqPc[2] = "done" /\ SetupPost(3))
  \/ RunPopen(3)
  \/ RunActivate(3)

\* The request handlers of the threaded server.
HandlerNext ==
  \/ \E r \in Requests : SetupPost(r)
  \/ \E r \in Requests : RunPopen(r)
  \/ \E r \in Requests : RunActivate(r)
  \/ \E r \in Requests : StopCheck(r)
  \/ \E r \in Requests : StopTerminate(r)
  \/ \E r \in Requests : StopClear(r)
  \/ \E r \in Requests : StopDeactivate(r)
  \/ VideoFeed
  \/ RenderCheck

\* ---------------------------------------------------------- specification

Init == PipeInit /\ ServerInit

Next ==
  \/ ParseArgs
  \/ InferOpen
  \/ StartPre
  \/ StartPost
  \/ EngineSubmit
  \/ EngineComplete
  \/ EngineSentinel
  \/ EngineReturn
  \/ JoinPre
  \/ PutNone
  \/ JoinPost
  \/ InferRelease
  \/ LogSuccess
  \/ Interrupt
  \/ ProcessExit
  \/ PreRead
  \/ PreImages
  \/ PreSentinel
  \/ PostGet
  \/ PostCleanup

Spec == Init /\ [][Next]_vars

\* The server process on its own: the pipeline variables stay at one initial value.
ServerSpecInit ==
  /\ Init
  /\ variant = "client"
  /\ input_kind = "video"
  /\ nFrames = 0
  /\ batch_size = 1
  /\ net_exists
  /\ labels_exists

RelaySpec == ServerSpecInit /\ [][RelayNext]_vars

HandlerSpec == ServerSpecInit /\ [][HandlerNext]_vars

SessionSpec == ServerSpecInit /\ [][SessionNext]_vars

\* Scheduling: every started thread keeps being scheduled, and an engine
\* completion that is pending is delivered. A KeyboardInterrupt, a key press
\* and a sink failure are the environment's and are not forced.
MainStep ==
  \/ ParseArgs \/ InferOpen \/ StartPre \/ StartPost \/ EngineSubmit
  \/ EngineSentinel \/ EngineReturn \/ JoinPre \/ PutNone \/ JoinPost
  \/ InferRelease \/ LogSuccess \/ ProcessExit

PreStep == PreRead \/ PreImages \/ PreSentinel

PostStep == PostGet \/ PostCleanup

\* The runs checked for liveness read at most MaxLiveFrames frames.
FairInit == Init /\ nFrames <= MaxLiveFrames

FairSpec ==
  /\ FairInit
  /\ [][Next]_vars
  /\ WF_vars(MainStep)
  /\ WF_vars(EngineComplete)
  /\ WF_vars(PreStep)
  /\ WF_vars(PostStep)

\* ------------------------------------------------------------------ claims

\* The frames of the i-th batch of the source, in source order.
SourceBatch(i) == [j \in 1..batch_size |-> (i - 1) * batch_size + j]

\* The preprocessed data of a frame, as the running source path derives it.
PreprocessedOf(frame) ==
  IF HasCap THEN utils_preprocess(cvtColor(frame)) ELSE utils_preprocess(frame)

\* C1: the i-th non-Sentinel item postprocess gets carries the original frames
\* of the i-th batch put on input_queue, with the inference outputs computed
\* from that batch's own preprocessed data; finished frames reach the sink in
\* source order, each paired with the outputs of its own batch.
C1_FifoCorrespondence ==
  /\ Len(popped) <= Len(pushed)
  /\ Len(sunk) <= Len(popped)
  /\ \A i \in 1..Len(popped) :
       /\ popped[i].original = pushed[i].frames
       /\ popped[i].infer_results =
            [j \in 1..batch_size |-> RawOutput(pushed[i].processed[j])]
       /\ popped[i].original = SourceBatch(i)
       /\ popped[i].infer_results =
            [j \in 1..batch_size |-> RawOutput(PreprocessedOf(SourceBatch(i)[j]))]
  /\ \A i \in 1..Len(sunk) :
       /\ sunk[i].frame = SourceBatch(i)
       /\ sunk[i].detections = extract_detections(Unwrap(popped[i].infer_results))

\* C1 witness: two batches of several frames each went through both queues
\* while the preprocessor was still ahead of the postprocessor.
C1_Witness ==
  /\ batch_size >= 2
  /\ Len(sunk) >= 2
  /\ Len(pushed) > Len(popped)

\* C2 (as stated): for every N and B the preprocessor pushes exactly
\* floor(N/B) batches of B consecutive frames.
C2_FloorBatchesForEverySource ==
  (mainPc = "exited" /\ ~interrupted /\ exitStatus = 0)
    => Len(pushed) = nFrames \div batch_size

\* C2 (amended): a preprocessor that ran to its end with no quit key seen has
\* pushed exactly floor(N/B) batches; every batch ever pushed holds B
\* consecutive frames in source order, so the final N mod B frames are never
\* pushed; an image set that validation rejects is never preprocessed.
C2_FloorBatchesWhenPreprocessed ==
  /\ Len(pushed) <= nFrames \div batch_size
  /\ \A i \in 1..Len(pushed) :
       /\ pushed[i].frames = SourceBatch(i)
       /\ Len(pushed[i].processed) = batch_size
  /\ (prePc = "done" /\ ~quitSeen) => Len(pushed) = nFrames \div batch_size
  /\ (~HasCap /\ validate_images_raises(Images, batch_size))
       => (pushed = <<>> /\ prePc = "idle")

\* C2 witness: a capture source whose length is no multiple of the batch size
\* was read to its end: full batches pushed, a short tail left unpushed.
C2_Witness ==
  /\ HasCap
  /\ prePc = "done"
  /\ ~quitSeen
  /\ nFrames % batch_size # 0
  /\ Len(pushed) >= 2
  /\ frames # <<>>

\* C3 (as stated): neither queue of infer() ever holds more items than the
\* configured capacity.
C3_QueuesWithinCapacity ==
  /\ Len(input_queue) <= output_queue_maxsize
  /\ Len(output_queue) <= output_queue_maxsize

\* C4 (as stated): in a full run exactly one Sentinel is put on input_queue and
\* exactly one on output_queue, counting the engine's and infer()'s.
C4_ExactlyOneSentinelPerQueue ==
  (mainPc = "exited" /\ ~interrupted /\ threadsStarted # {})
    => (inSentinels = 1 /\ outSentinels = 1)

\* C5 (as stated): after an abrupt stop (quit key or KeyboardInterrupt) no
\* worker thread stays blocked forever on a queue: here, the postprocessor is
\* never left waiting on an empty output_queue once the main thread, the only
\* producer of that queue (the engine's run() and infer()), has ended.
C5_NoWorkerBlockedForever ==
  (variant = "mod" /\ (interrupted \/ quitSeen))
    => ~(postPc = "get" /\ output_queue = <<>> /\ mainPc = "shutdown")

\* C9 (as stated): a per-item failure in postprocess is skipped: the thread
\* stays alive and goes on to the following results.
C9_ItemFailureDoesNotHalt ==
  sinkFails > 0 => postPc # "dead"

\* Every thread of the pipeline has ended and the process has exited.
AllTerminated == mainPc = "exited" /\ ~PreAlive /\ ~PostAlive

\* C6: a run over a source of N = 0 frames terminates. A capture source whose
\* first read fails: the preprocessor puts only the Sentinel, the postprocessor
\* gets a Sentinel and no result, and unless a KeyboardInterrupt arrives the
\* joins return and every thread ends. An empty image set: infer() returns
\* before any thread is started.
C6_EmptyRunTerminates ==
  /\ [](nFrames = 0 =>
          /\ pushed = <<>>
          /\ popped = <<>>
          /\ inSentinels <= 1
          /\ (prePc = "done" => inSentinels = 1)
          /\ (postPc = "done" => postSentinels = 1)
          /\ (~HasCap => threadsStarted = {}))
  /\ (nFrames = 0 /\ mainPc = "infer") ~> (AllTerminated \/ interrupted)

\* C6 witness: the empty capture run ended with success logged, both workers
\* done, only Sentinels ever queued.
C6_Witness ==
  /\ nFrames = 0
  /\ HasCap
  /\ mainPc = "exited"
  /\ ~interrupted
  /\ prePc = "done"
  /\ postPc = "done"
  /\ inSentinels = 1
  /\ postSentinels = 1

\* C7: on a display sink the quit key is polled once per consumed result; once
\* it is seen the postprocessor gets nothing more from output_queue and routes
\* nothing more to a sink, and cap is released before the postprocessor ends.
C7_QuitStopsConsumption ==
  [][/\ (SinkOf = "display" => polls' = Len(popped'))
     /\ (quitSeen => /\ quitSeen'
                     /\ popped' = popped
                     /\ sunk' = sunk
                     /\ postSentinels' = postSentinels
                     /\ (postPc' = "done" => capReleased'))]_vars

\* C7 witness: the postprocessor ended on the quit key with a result still
\* queued behind it, and cap released.
C7_Witness ==
  /\ quitSeen
  /\ postPc = "done"
  /\ capReleased
  /\ output_queue # <<>>
  /\ Head(output_queue) # Sentinel
  /\ Len(popped) >= 2

\* C8 (as stated): the receiver loop never stops because of a datagram that
\* fails to deserialize or decode.
C8_ReceiverNeverStops == recvPc # "stopped"

\* The datagram whose decode latest_frame holds once n datagrams were received:
\* the last one pickle.loads accepted.
LastStored(n) ==
  IF n >= 1 /\ pickle_loads_raises(received[n]) THEN n - 1 ELSE n

\* C10: latest_frame holds only the most recent frame. Once the last datagram
\* received is a valid one, latest_frame is its decode; every frame the render
\* loop yields is the decode of the latest datagram stored when it read the
\* buffer, never of an earlier one.
C10_LatestFrameWins ==
  /\ (received # <<>> /\ received[Len(received)] \in ValidDatagrams)
       => latest_frame = imdecode(pickle_loads(received[Len(received)]))
  /\ \A i \in 1..Len(yielded) :
       LET n == LastStored(yielded[i].after)
       IN /\ n >= 1
          /\ received[n] \in ValidDatagrams
          /\ yielded[i].frame = imencode(imdecode(pickle_loads(received[n])))

\* C10 witness: two valid datagrams with different images were received with
\* no frame yielded in between, and the next frame yielded is the second one's.
C10_Witness ==
  /\ Len(yielded) >= 1
  /\ yielded[1].after = 2
  /\ received[1] \in ValidDatagrams
  /\ received[2] \in ValidDatagrams
  /\ received[1] # received[2]
  /\ yielded[1].frame = imencode(imdecode(pickle_loads(received[2])))

\* C11: while the receiver has received no datagram, latest_frame stays None,
\* and a render loop running against the unset buffer neither raises nor
\* yields a frame.
C11_EmptyBufferTolerated ==
  received = <<>> =>
    /\ latest_frame = None
    /\ yielded = <<>>
    /\ renderPc \in {"idle", "check"}

\* C11 witness: a render loop is being served, the receiver runs, and nothing
\* has been received (a datagram may wait in the socket).
C11_Witness ==
  /\ received = <<>>
  /\ recvPc = "recv"
  /\ stream_active
  /\ renderPc = "check"
  /\ latest_frame = None

\* C12: the disk sink of object_detection_mod numbers its files with a counter
\* that starts at 0 and advances by one per consumed result: the k-th result
\* (from 0) goes to output_k.png; N images with batch_size 1 end with exactly
\* the writes output_0.png .. output_(N-1).png, in order, each of which
\* produced its file unless cv2.imwrite reported a failure.
C12_DiskFilesNumberedInOrder ==
  (variant = "mod" /\ ~HasCap) =>
    /\ image_id = Len(popped)
    /\ Len(sunk) = image_id
    /\ \A k \in 1..Len(sunk) :
         /\ sunk[k].sink = "disk"
         /\ sunk[k].path = OutputPath(k - 1)
         /\ sunk[k].frame = popped[k].original
    /\ (batch_size = 1 /\ postPc = "done") =>
         /\ Len(sunk) = nFrames
         /\ sinkFails = 0 => \A k \in 1..Len(sunk) : sunk[k].ok

\* C12 witness: three images, batch_size 1, all three files written.
C12_Witness ==
  /\ variant = "mod" /\ ~HasCap
  /\ batch_size = 1 /\ nFrames = 3
  /\ postPc = "done"
  /\ Len(sunk) = 3
  /\ sunk[3].path = OutputPath(2) /\ sunk[3].ok
  /\ sunk[1].path = OutputPath(0) /\ sunk[1].ok

\* C13: every result the postprocessor popped was routed by exactly one sink
\* call, on the one sink of the entry point; four images with batch_size 4
\* make one batch, one result and one output.
C13_ExactlyOneSinkPerResult ==
  /\ Len(sunk) = Len(popped)
  /\ \A k \in 1..Len(sunk) :
       /\ sunk[k].sink = SinkOf
       /\ sunk[k].sink \in {"display", "disk", "relay"}
       /\ sunk[k].frame = popped[k].original
  /\ (~HasCap /\ nFrames = 4 /\ batch_size = 4 /\ postPc = "done") =>
       /\ Len(pushed) = 1
       /\ Len(popped) = 1
       /\ Len(sunk) = 1

\* C13 witness: four images in one batch of four, written as one output.
C13_Witness ==
  /\ variant = "mod" /\ ~HasCap
  /\ nFrames = 4 /\ batch_size = 4
  /\ postPc = "done"
  /\ Len(pushed) = 1 /\ Len(pushed[1].frames) = 4
  /\ Len(popped) = 1
  /\ Len(sunk) = 1 /\ sunk[1].ok /\ sunk[1].path = OutputPath(0)

\* C14: when the model file or the labels file does not exist, parse_args
\* fails with an error outcome: FileNotFoundError, exit status 1. infer() is
\* never entered, so no queue is filled, no engine runs, no thread is started.
C14_MissingFileFailsInParseArgs ==
  (~net_exists \/ ~labels_exists) =>
    /\ mainPc \in {"parse_args", "shutdown", "exited"}
    /\ threadsStarted = {}
    /\ prePc = "idle" /\ postPc = "idle"
    /\ input_queue = <<>> /\ inflight = <<>> /\ output_queue = <<>>
    /\ pushed = <<>> /\ sunk = <<>>
    /\ mainPc # "parse_args" =>
         /\ logged = <<"FileNotFoundError">>
         /\ exitStatus = 1

\* C14 witness: the model file exists, the labels file does not, and the
\* process has ended.
C14_Witness ==
  /\ net_exists /\ ~labels_exists
  /\ mainPc = "exited"
  /\ exitStatus = 1
  /\ logged = <<"FileNotFoundError">>

\* C15: when validation rejects the image set, infer() logs one error and
\* returns normally (exit status 0): no thread is started, no batch is queued,
\* nothing is processed and success is not logged.
C15_RejectedImagesReturnNormally ==
  (~HasCap /\ validate_images_raises(Images, batch_size)) =>
    /\ threadsStarted = {}
    /\ prePc = "idle" /\ postPc = "idle"
    /\ input_queue = <<>> /\ inflight = <<>> /\ output_queue = <<>>
    /\ pushed = <<>> /\ popped = <<>> /\ sunk = <<>>
    /\ \A i \in 1..Len(logged) : logged[i] # "success"
    /\ (mainPc \in {"shutdown", "exited"} /\ ~interrupted
          /\ net_exists /\ labels_exists) =>
         /\ logged = <<"error">>
         /\ exitStatus = 0

\* C15 witness: three images with batch_size 2 are rejected; infer() has
\* returned and the process ended.
C15_Witness ==
  /\ ~HasCap /\ nFrames = 3 /\ batch_size = 2
  /\ mainPc = "exited"
  /\ logged = <<"error">>
  /\ exitStatus = 0

\* C16: a KeyboardInterrupt raised while infer() runs is answered, in both
\* entry points, by an exit with status 0.
C16_InterruptExitsZero ==
  interrupted => exitStatus = 0

\* infer() has logged its success record.
SuccessLogged == \E i \in 1..Len(logged) : logged[i] = "success"

\* C17: no Sentinel is placed on the output queue ahead of a pending result;
\* when the postprocessor gets a Sentinel, every batch the preprocessor pushed
\* has been popped and routed; success is logged only after both threads have
\* ended; and a started run with no quit, no interrupt and no raised sink error
\* does reach that end.
C17_DrainBeforeSentinel ==
  /\ [](/\ \A i, j \in 1..Len(output_queue) :
             (i < j /\ output_queue[i] = Sentinel) => output_queue[j] = Sentinel
        /\ outSentinels > 0 => (inflight = <<>> /\ prePc = "done")
        /\ postSentinels > 0 =>
             (Len(popped) = Len(pushed) /\ Len(sunk) = Len(pushed))
        /\ SuccessLogged => (~PreAlive /\ ~PostAlive))
  /\ (mainPc = "start_pre") ~>
       \/ interrupted
       \/ quitSeen
       \/ postPc = "dead"
       \/ /\ SuccessLogged
          /\ postSentinels = 1
          /\ Len(popped) = Len(pushed)

\* C17 witness: three frames in three batches were all routed before the
\* postprocessor got its Sentinel, and success was logged.
C17_Witness ==
  /\ nFrames = 3 /\ batch_size = 1
  /\ ~interrupted /\ ~quitSeen
  /\ SuccessLogged
  /\ postSentinels = 1
  /\ Len(pushed) = 3 /\ Len(popped) = 3 /\ Len(sunk) = 3

\* The batches put on input_queue and not yet completed by the engine, oldest
\* first.
PendingBatches == inflight \o SelectSeq(input_queue, LAMBDA item : item # Sentinel)

\* An input item is a pair of lists of batch_size entries each, the j-th
\* preprocessed entry derived from the j-th original frame.
WellFormedBatch(item) ==
  /\ item.tag = "batch"
  /\ Len(item.frames) = batch_size
  /\ Len(item.processed) = batch_size
  /\ \A j \in 1..batch_size : item.processed[j] = PreprocessedOf(item.frames[j])

\* C18: every batch ever put on input_queue is a well-formed pair, and a batch
\* that waits in the queue or in the engine is still what it was when it was
\* put: the preprocessor goes on with new accumulators and does not touch it.
C18_BatchesWellFormedAndStable ==
  /\ \A i \in 1..Len(pushed) : WellFormedBatch(pushed[i])
  /\ Len(PendingBatches) <= Len(pushed)
  /\ \A k \in 1..Len(PendingBatches) :
       PendingBatches[k] = pushed[Len(pushed) - Len(PendingBatches) + k]

\* C18 witness: the first batch of two frames is still queued while a second
\* batch was put and the accumulators already hold a frame of the third.
C18_Witness ==
  /\ HasCap /\ batch_size = 2
  /\ Len(pushed) = 2
  /\ Len(input_queue) = 2 /\ input_queue[1] = pushed[1]
  /\ pushed[1].frames = <<1, 2>>
  /\ frames = <<5>>

\* C19: the Sentinel is the last item the preprocessor puts on input_queue.
\* After the first failed read it reads no more and puts no batch, not even
\* the partial one it holds; it puts one Sentinel and ends; nothing is put
\* after the Sentinel.
C19_SentinelIsLast ==
  /\ [](/\ inSentinels <= 1
        /\ (prePc = "done") = (inSentinels = 1)
        /\ \A i \in 1..Len(input_queue) :
             input_queue[i] = Sentinel => i = Len(input_queue)
        /\ \A i \in 1..Len(pushed) : Len(pushed[i].frames) = batch_size
        /\ (HasCap /\ prePc \in {"sentinel", "done"}) => Len(frames) < batch_size)
  /\ [][(prePc = "sentinel" \/ prePc = "done") =>
          (pushed' = pushed /\ capPos' = capPos /\ frames' = frames
             /\ prePc' \in {"sentinel", "done"})]_vars
  /\ [][inSentinels = 1 =>
          (inSentinels' = 1 /\ Len(input_queue') <= Len(input_queue))]_vars

\* C19 witness: three frames with batch_size 2; the fourth read failed, the
\* partial batch <<3>> was not put, the Sentinel was, and the thread ended.
C19_Witness ==
  /\ HasCap /\ nFrames = 3 /\ batch_size = 2
  /\ capPos = 3 /\ ~capReleased
  /\ prePc = "done"
  /\ inSentinels = 1
  /\ Len(pushed) = 1
  /\ frames = <<3>>
  /\ input_queue = <<pushed[1], Sentinel>>

\* C20: at most one detection subprocess is alive at any time: none is started
\* while one started before is still running.
C20_AtMostOneSubprocess ==
  Cardinality(procAlive) <= 1

\* C21: once every request the server took has completed, stream_active is
\* true exactly when detection_process holds a handle.
C21_ActiveIffHandle ==
  (\A r \in Requests : reqPc[r] \in {"new", "done"}) =>
    (stream_active <=> detection_process # None)

\* C22: the render loop only encodes a frame that is set: the buffer is not
\* None when cv2.imencode reads it, the loop never raises, and once a frame
\* datagram has been stored the buffer is never None again.
C22_RenderEncodesSetFrame ==
  /\ renderPc = "encode" => latest_frame # None
  /\ renderPc # "raised"
  /\ (\E i \in 1..Len(received) : received[i] \in ValidDatagrams) => latest_frame # None

\* The frame latest_frame holds once n datagrams were received, whatever
\* requests were served meanwhile.
FrameAfter(n) ==
  IF LastStored(n) = 0 THEN None ELSE imdecode(pickle_loads(received[LastStored(n)]))

\* C23: stop_detection leaves latest_frame as it is: the buffer depends on the
\* datagrams received only, not on the requests served. So a frame the render
\* loop yields after the second setup started its subprocess, with no datagram
\* received since, is the last frame of the session before.
C23_StopKeepsLatestFrame ==
  /\ latest_frame = FrameAfter(Len(received))
  /\ \A i \in 1..Len(yielded) :
       (yielded[i].session >= 2 /\ yielded[i].after = popenAt[yielded[i].session]) =>
         /\ FrameAfter(popenAt[yielded[i].session]) # None
         /\ yielded[i].frame = imencode(FrameAfter(popenAt[yielded[i].session]))

\* C23 witness: a frame was received during the first session, the stop
\* terminated its subprocess, the second setup started a new one, and the
\* render loop then yielded the old frame before any new datagram was received.
C23_Witness ==
  /\ popens = 2
  /\ procAlive = {2}
  /\ reqPc[2] = "done" /\ reqPc[3] = "done"
  /\ stream_active
  /\ Len(received) = popenAt[2]
  /\ LastStored(popenAt[2]) > popenAt[1]
  /\ received[LastStored(popenAt[2])] \in ValidDatagrams
  /\ Len(yielded) >= 1
  /\ yielded[Len(yielded)].session = 2
  /\ yielded[Len(yielded)].frame = imencode(latest_frame)

====
